---- MODULE Spec2Model ----
(***************************************************************************)
(* Movie service of src/routes/movies.py: five request handlers over one   *)
(* table of movies.  A handler runs atomically between two of its awaits   *)
(* on the database session, so every handler is one action per database    *)
(* round trip: the code up to and including its first query, then its      *)
(* commit (or, for the list, its count query).  Requests are served        *)
(* concurrently: the steps of different requests interleave.               *)
(***************************************************************************)
EXTENDS Integers, Sequences, FiniteSets, TLC

VARIABLES
    table,      \* the movies table: the rows in the store's order
    nextId,     \* the next identifier the store assigns
    req,        \* per request slot: the handler's position and its locals
    last,       \* the response of the request that completed last
    nops       \* number of requests received so far

vars == <<table, nextId, req, last, nops>>

-----------------------------------------------------------------------------
(* Bounds of the model *)

MaxOps == 3         \* requests received in one behaviour of Spec
MaxFullOps == 3     \* requests received in one behaviour of SpecFull
MaxListOps == 5     \* requests received in one behaviour of SpecList
MaxPage == 3        \* largest page number requested
MaxListMovies == 3  \* distinct movies created in SpecList
Today == 400        \* date.today(), as a day number

(* Constants of the program *)

MaxNameLen == 255
OneYear == 365
MinScore == 0
MaxScore == 100
MinPage == 1
MinPerPage == 1
MaxPerPage == 20

\* The requests in flight at the same time.
Reqs == {1, 2}

-----------------------------------------------------------------------------
(* Values *)

\* A str made of one character repeated: len() is all the program asks of a
\* name, besides equality.
Str(c, n) == [ch |-> c, n |-> n]
PyLen(s) == s.n

\* Optional[T]: None, or a value.
None == <<>>
Some(v) == <<v>>
Value(o) == o[1]

NoBody == [none |-> TRUE]
NoGhost == [none |-> TRUE]
Idle == [op |-> "idle"]

\* The attributes the update schema carries, and the columns it does not.
UpdateFields == {"name", "date", "score", "overview", "status", "budget", "revenue"}
CreateFields == UpdateFields \cup {"genre", "crew", "orig_title", "orig_lang", "country"}
DetailFields == CreateFields \cup {"id"}

Response(op, args, code, detail, body, ghost) ==
    [op |-> op, args |-> args, status |-> code, detail |-> detail,
     body |-> body, ghost |-> ghost]

HTTPException(op, args, code, msg) ==
    Response(op, args, code, [msg |-> msg], NoBody, NoGhost)

\* An exception no handler catches: the framework answers 500.
ServerError(op, args, what) ==
    Response(op, args, 500, [msg |-> what], NoBody, NoGhost)

\* MovieDetailResponseSchema.from_orm: the thirteen attributes of the row.
FromOrm(m) == [f \in DetailFields |-> m[f]]

-----------------------------------------------------------------------------
(* Queries *)

\* Mutant: the query without its where clause.
WhereIdAll(t, movie_id) == t

\* select(MovieModel).where(MovieModel.id == movie_id)
WhereId(t, movie_id) == SelectSeq(t, LAMBDA m : m.id = movie_id)

\* select(MovieModel).where(MovieModel.name == name, MovieModel.date == date)
WhereNameDate(t, name, date) ==
    SelectSeq(t, LAMBDA m : m.name = name /\ m.date = date)

\* Result.scalar_one_or_none(): the row, None, or MultipleResultsFound.
ScalarOneOrNone(rows) ==
    IF Len(rows) = 0 THEN [kind |-> "none"]
    ELSE IF Len(rows) = 1 THEN [kind |-> "one", row |-> rows[1]]
    ELSE [kind |-> "multiple"]

\* The position of the row with this id, 0 when there is none.
IndexOf(t, movie_id) ==
    IF \E i \in 1..Len(t) : t[i].id = movie_id
    THEN CHOOSE i \in 1..Len(t) : t[i].id = movie_id
    ELSE 0

Min(a, b) == IF a < b THEN a ELSE b

\* select(MovieModel).offset(offset).limit(limit)
OffsetLimit(t, offset, limit) == SubSeq(t, offset + 1, Min(offset + limit, Len(t)))

\* DELETE FROM movies WHERE id = movie_id
DeleteRow(t, movie_id) == SelectSeq(t, LAMBDA m : m.id # movie_id)

\* A commit that changes the number of rows is seen by every list request
\* that has fetched its page and not yet counted (ghost).
MarkDirty(q) ==
    IF q.op = "list" THEN [q EXCEPT !.dirty = TRUE] ELSE q

-----------------------------------------------------------------------------
(* GET /movies/{movie_id}/ *)

GetMovieById(r, movie_id) ==
    /\ req[r].op = "idle"
    /\ LET args == [movie_id |-> movie_id]
           movie == ScalarOneOrNone(WhereId(table, movie_id))
       IN  last' = IF movie.kind = "none"
                   THEN HTTPException("get", args, 404,
                                      "Movie with the given ID was not found.")
                   ELSE IF movie.kind = "multiple"
                   THEN ServerError("get", args, "MultipleResultsFound")
                   ELSE Response("get", args, 200, [msg |-> "OK"],
                                 FromOrm(movie.row), NoGhost)
    /\ nops' = nops + 1
    /\ UNCHANGED <<table, nextId, req>>

-----------------------------------------------------------------------------
(* DELETE /movies/{movie_id}/ *)

DeleteMovie(r, movie_id) ==
    /\ req[r].op = "idle"
    /\ nops' = nops + 1
    /\ LET args == [movie_id |-> movie_id]
           movie == ScalarOneOrNone(WhereId(table, movie_id))
       IN  IF movie.kind = "none"
           THEN /\ last' = HTTPException("delete", args, 404,
                                         "Movie with the given ID was not found.")
                /\ UNCHANGED req
           ELSE IF movie.kind = "multiple"
           THEN /\ last' = ServerError("delete", args, "MultipleResultsFound")
                /\ UNCHANGED req
           ELSE /\ req' = [req EXCEPT ![r] = [op |-> "delete", args |-> args,
                                              movie |-> movie.row]]
                /\ UNCHANGED last
    /\ UNCHANGED <<table, nextId>>

\* db.delete(movie); db.commit().  A row another request has deleted in the
\* meantime matches nothing, and the commit still succeeds.
DeleteCommit(r) ==
    /\ req[r].op = "delete"
    /\ table' = DeleteRow(table, req[r].movie.id)
    /\ req' = [q \in Reqs |->
                 IF q = r THEN Idle
                 ELSE IF Len(table') # Len(table) THEN MarkDirty(req[q])
                 ELSE req[q]]
    /\ last' = Response("delete", req[r].args, 204, [msg |-> "No Content"],
                        NoBody, NoGhost)
    /\ UNCHANGED <<nextId, nops>>

-----------------------------------------------------------------------------
(* POST /movies/ *)

NameFits(name) == ~(PyLen(name) > MaxNameLen)

DateAllowed(date) == ~(date > Today + OneYear)

\* Mutant: the score checked against its lower bound only.
ScoreInRangeNoUpper(score) == MinScore <= score

ScoreInRange(score) == MinScore <= score /\ score <= MaxScore

NonNegative(amount) == ~(amount < 0)

\* The five checks in the order of the code: the detail of the first one
\* that fails, "" when all pass.
CreateValidate(movie) ==
    IF ~NameFits(movie.name) THEN "Name must not exceed 255 characters."
    ELSE IF ~DateAllowed(movie.date)
    THEN "Movie date must not be more than one year in the future."
    ELSE IF ~ScoreInRange(movie.score) THEN "Score must be between 0 and 100."
    ELSE IF ~NonNegative(movie.budget) THEN "Budget must be a non-negative number."
    ELSE IF ~NonNegative(movie.revenue) THEN "Revenue must be a non-negative number."
    ELSE ""

\* MovieModel(name=movie.name, ...), with the id the store gives it.
NewMovie(movie, id) ==
    [f \in DetailFields |-> IF f = "id" THEN id ELSE movie[f]]

CreateMovie(r, movie) ==
    /\ req[r].op = "idle"
    /\ nops' = nops + 1
    /\ LET invalid == CreateValidate(movie)
           existing_movie ==
               ScalarOneOrNone(WhereNameDate(table, movie.name, movie.date))
       IN  IF invalid # ""
           THEN /\ last' = HTTPException("create", movie, 400, invalid)
                /\ UNCHANGED req
           ELSE IF existing_movie.kind = "multiple"
           THEN /\ last' = ServerError("create", movie, "MultipleResultsFound")
                /\ UNCHANGED req
           ELSE IF existing_movie.kind = "one"
           THEN /\ last' = Response("create", movie, 409,
                                    [msg |-> "A movie with the name and release date already exists.",
                                     name |-> movie.name, date |-> movie.date],
                                    NoBody, NoGhost)
                /\ UNCHANGED req
           ELSE /\ req' = [req EXCEPT ![r] = [op |-> "create", args |-> movie]]
                /\ UNCHANGED last
    /\ UNCHANGED <<table, nextId>>

\* INSERT INTO movies: the table takes the row as it is; the uniqueness of
\* (name, date) is the handler's check, not a constraint of the table.
Insert(t, new_movie) == Append(t, new_movie)

\* db.add(new_movie); db.commit(); db.refresh(new_movie)
CreateCommit(r) ==
    /\ req[r].op = "create"
    /\ LET new_movie == NewMovie(req[r].args, nextId)
       IN  /\ table' = Insert(table, new_movie)
           /\ last' = Response("create", req[r].args, 201, [msg |-> "Created"],
                               FromOrm(new_movie), NoGhost)
    /\ nextId' = nextId + 1
    /\ req' = [q \in Reqs |-> IF q = r THEN Idle ELSE MarkDirty(req[q])]
    /\ UNCHANGED nops

-----------------------------------------------------------------------------
(* PATCH /movies/{movie_id}/ *)

\* The check the code makes of a supplied value before it assigns it: of
\* score, budget and revenue, and none of the other four.
FieldValid(f, v) ==
    IF f = "score" THEN ScoreInRange(v)
    ELSE IF f \in {"budget", "revenue"} THEN NonNegative(v)
    ELSE TRUE

\* "if data.f is not None: [if not valid: raise 400]; existing_movie.f = data.f"
\* on the state st = (still running, the session's object).
CheckedAssign(st, data, f) ==
    IF ~st.ok \/ data[f] = None THEN st
    ELSE IF ~FieldValid(f, Value(data[f])) THEN [st EXCEPT !.ok = FALSE]
    ELSE [st EXCEPT !.m[f] = Value(data[f])]

\* Mutant: the last assignment, of status, is missing.
UpdateAssignNoStatus(existing_movie, data) ==
    LET s0 == [ok |-> TRUE, m |-> existing_movie]
        s1 == CheckedAssign(s0, data, "score")
        s2 == CheckedAssign(s1, data, "budget")
        s3 == CheckedAssign(s2, data, "revenue")
        s4 == CheckedAssign(s3, data, "name")
        s5 == CheckedAssign(s4, data, "date")
    IN  CheckedAssign(s5, data, "overview")

\* The body of update_movie between the lookup and the commit: the checks and
\* the assignments, in the order of the code.  A failed check leaves in m the
\* assignments made before it.
UpdateAssign(existing_movie, data) ==
    LET s0 == [ok |-> TRUE, m |-> existing_movie]
        s1 == CheckedAssign(s0, data, "score")
        s2 == CheckedAssign(s1, data, "budget")
        s3 == CheckedAssign(s2, data, "revenue")
        s4 == CheckedAssign(s3, data, "name")
        s5 == CheckedAssign(s4, data, "date")
        s6 == CheckedAssign(s5, data, "overview")
    IN  CheckedAssign(s6, data, "status")

\* Mutant: each assignment is committed as it is made, so that a check that
\* fails later leaves the earlier assignments in the table.
UpdateMovieFlushes(r, movie_id, data) ==
    /\ req[r].op = "idle"
    /\ nops' = nops + 1
    /\ LET args == [movie_id |-> movie_id, data |-> data]
           existing_movie == ScalarOneOrNone(WhereId(table, movie_id))
       IN  IF existing_movie.kind = "none"
           THEN /\ last' = HTTPException("update", args, 404,
                                         "Movie with the given ID was not found.")
                /\ UNCHANGED <<req, table>>
           ELSE IF existing_movie.kind = "multiple"
           THEN /\ last' = ServerError("update", args, "MultipleResultsFound")
                /\ UNCHANGED <<req, table>>
           ELSE LET st == UpdateAssign(existing_movie.row, data)
                IN  IF ~st.ok
                    THEN /\ last' = HTTPException("update", args, 400,
                                                  "Invalid input data.")
                         /\ table' = [table EXCEPT ![IndexOf(table, movie_id)] = st.m]
                         /\ UNCHANGED req
                    ELSE /\ req' = [req EXCEPT ![r] =
                                      [op |-> "update", args |-> args,
                                       loaded |-> existing_movie.row,
                                       movie |-> st.m]]
                         /\ UNCHANGED <<last, table>>
    /\ UNCHANGED nextId

\* The lookup, the checks and the assignments.  An HTTPException leaves the
\* handler without a commit: the session is closed and what was assigned to
\* its object is dropped.
UpdateMovie(r, movie_id, data) ==
    /\ req[r].op = "idle"
    /\ nops' = nops + 1
    /\ LET args == [movie_id |-> movie_id, data |-> data]
           existing_movie == ScalarOneOrNone(WhereId(table, movie_id))
       IN  IF existing_movie.kind = "none"
           THEN /\ last' = HTTPException("update", args, 404,
                                         "Movie with the given ID was not found.")
                /\ UNCHANGED req
           ELSE IF existing_movie.kind = "multiple"
           THEN /\ last' = ServerError("update", args, "MultipleResultsFound")
                /\ UNCHANGED req
           ELSE LET st == UpdateAssign(existing_movie.row, data)
                IN  IF ~st.ok
                    THEN /\ last' = HTTPException("update", args, 400,
                                                  "Invalid input data.")
                         /\ UNCHANGED req
                    ELSE /\ req' = [req EXCEPT ![r] =
                                      [op |-> "update", args |-> args,
                                       loaded |-> existing_movie.row,
                                       movie |-> st.m]]
                         /\ UNCHANGED last
    /\ UNCHANGED <<table, nextId>>

\* The attributes of the session's object whose value differs from the loaded
\* one: the columns the commit's UPDATE sets.
DirtyFields(loaded, movie) == {f \in UpdateFields : movie[f] # loaded[f]}

\* db.commit(): UPDATE movies SET <dirty columns> WHERE id = movie_id.  With
\* nothing dirty no statement is sent; an UPDATE that matches no row (the row
\* was deleted in the meantime) raises StaleDataError.
UpdateCommit(r) ==
    /\ req[r].op = "update"
    /\ LET movie == req[r].movie
           dirty == DirtyFields(req[r].loaded, movie)
           i == IndexOf(table, movie.id)
           ok == Response("update", req[r].args, 200,
                          [msg |-> "Movie updated successfully."], NoBody, NoGhost)
       IN  IF dirty = {}
           THEN /\ last' = ok
                /\ UNCHANGED table
           ELSE IF i = 0
           THEN /\ last' = ServerError("update", req[r].args, "StaleDataError")
                /\ UNCHANGED table
           ELSE /\ table' = [table EXCEPT ![i] =
                               [f \in DetailFields |->
                                  IF f \in dirty THEN movie[f] ELSE table[i][f]]]
                /\ last' = ok
    /\ req' = [req EXCEPT ![r] = Idle]
    /\ UNCHANGED <<nextId, nops>>

-----------------------------------------------------------------------------
(* GET /movies/ *)

\* Query(1, ge=1) and Query(10, ge=1, le=20)
ValidPagination(page, per_page) ==
    /\ page >= MinPage
    /\ per_page >= MinPerPage
    /\ per_page <= MaxPerPage

\* f"{rut_url}movies/?page={page}&per_page={per_page}"
PageUrl(page, per_page) ==
    [url |-> "/api/v1/theater/movies/", page |-> page, per_page |-> per_page]

TotalPages(total_items, per_page) == (total_items + per_page - 1) \div per_page

PrevPage(page, per_page) ==
    IF page > 1 THEN Some(PageUrl(page - 1, per_page)) ELSE None

\* Mutant: a next page is offered on the last page too.
NextPageOnLast(page, per_page, total_pages) ==
    IF page <= total_pages THEN Some(PageUrl(page + 1, per_page)) ELSE None

NextPage(page, per_page, total_pages) ==
    IF page < total_pages THEN Some(PageUrl(page + 1, per_page)) ELSE None

\* Mutant: the offset of the page after the one asked for.
OffsetOfNext(page, per_page) == page * per_page

\* .offset((page - 1) * per_page)
Offset(page, per_page) == (page - 1) * per_page

\* The page query.  n_at_fetch and dirty are ghosts: the number of rows the
\* table held when the page was read, and whether a commit has changed that
\* number since.
ListMovies(r, page, per_page) ==
    /\ req[r].op = "idle"
    /\ nops' = nops + 1
    /\ LET args == [page |-> page, per_page |-> per_page]
           ghost == [n_at_fetch |-> Len(table), dirty |-> FALSE]
           movies == OffsetLimit(table, Offset(page, per_page), per_page)
       IN  IF ~ValidPagination(page, per_page)
           THEN /\ last' = Response("list", args, 422, [msg |-> "Unprocessable Entity"],
                                    NoBody, NoGhost)
                /\ UNCHANGED req
           ELSE IF movies = <<>>
           THEN /\ last' = Response("list", args, 404, [msg |-> "No movies found."],
                                    NoBody, ghost)
                /\ UNCHANGED req
           ELSE /\ req' = [req EXCEPT ![r] =
                             [op |-> "list", args |-> args, movies |-> movies,
                              n_at_fetch |-> Len(table), dirty |-> FALSE]]
                /\ UNCHANGED last
    /\ UNCHANGED <<table, nextId>>

\* select(func.count()).select_from(MovieModel)
CountAll(t) == Len(t)

\* Mutant: total_items is the length of the page, not the count of the table.
ListCountOfPage(r) ==
    /\ req[r].op = "list"
    /\ LET page == req[r].args.page
           per_page == req[r].args.per_page
           total_items == Len(req[r].movies)
           total_pages == TotalPages(total_items, per_page)
       IN  last' = Response("list", req[r].args, 200, [msg |-> "OK"],
                            [movies |-> [i \in 1..Len(req[r].movies) |->
                                           FromOrm(req[r].movies[i])],
                             prev_page |-> PrevPage(page, per_page),
                             next_page |-> NextPage(page, per_page, total_pages),
                             total_pages |-> total_pages,
                             total_items |-> total_items],
                            [n_at_fetch |-> req[r].n_at_fetch,
                             dirty |-> req[r].dirty])
    /\ req' = [req EXCEPT ![r] = Idle]
    /\ UNCHANGED <<table, nextId, nops>>

\* The count query and the response.
ListCount(r) ==
    /\ req[r].op = "list"
    /\ LET page == req[r].args.page
           per_page == req[r].args.per_page
           total_items == CountAll(table)
           total_pages == TotalPages(total_items, per_page)
       IN  last' = Response("list", req[r].args, 200, [msg |-> "OK"],
                            [movies |-> [i \in 1..Len(req[r].movies) |->
                                           FromOrm(req[r].movies[i])],
                             prev_page |-> PrevPage(page, per_page),
                             next_page |-> NextPage(page, per_page, total_pages),
                             total_pages |-> total_pages,
                             total_items |-> total_items],
                            [n_at_fetch |-> req[r].n_at_fetch,
                             dirty |-> req[r].dirty])
    /\ req' = [req EXCEPT ![r] = Idle]
    /\ UNCHANGED <<table, nextId, nops>>

-----------------------------------------------------------------------------
(* Requests *)

NameOk == Str("a", MaxNameLen)
NameLong == Str("a", MaxNameLen + 1)

Names == {NameOk, NameLong}
Dates == {Today, Today + OneYear, Today + OneYear + 1}
Scores == {MinScore - 1, MinScore, MaxScore, MaxScore + 1}
Budgets == {-1, 0}
Revenues == {-1, 0}

BaseMovie ==
    [name |-> NameOk, date |-> Today, score |-> MinScore, genre |-> "g",
     overview |-> "o1", crew |-> "c", orig_title |-> "t", status |-> "s1",
     orig_lang |-> "l", budget |-> 0, revenue |-> 0, country |-> "k"]

\* Create requests that fail any number of the checks.
FullCreateInputs ==
    {[BaseMovie EXCEPT !.name = n, !.date = d, !.score = s, !.budget = b,
                       !.revenue = v] :
        n \in Names, d \in Dates, s \in Scores, b \in Budgets, v \in Revenues}

Opt(S) == {None} \cup {Some(v) : v \in S}

Present(data) == {f \in UpdateFields : data[f] # None}

\* The sets of attributes one update request carries: none, one or two.
FieldPairs ==
    {fs \in SUBSET UpdateFields : \E f, g \in UpdateFields : fs \subseteq {f, g}}

\* Update requests that set a name or a date some movie may already have.
FullUpdateInputs ==
    {data \in [name : Opt(Names), date : Opt({Today, Today + OneYear + 1}),
               score : Opt({MinScore - 1, MaxScore}), overview : Opt({"o2"}),
               status : Opt({"s2"}), budget : Opt({-1, 1}),
               revenue : Opt({-1, 1})] :
        Present(data) \in FieldPairs}

\* Update requests with one new value, and one invalid value where the code
\* checks, per attribute.
UpdateInputs ==
    {data \in [name : Opt({NameLong}), date : Opt({Today + OneYear + 1}),
               score : Opt({MinScore - 1, MaxScore}), overview : Opt({"o2"}),
               status : Opt({"s2"}), budget : Opt({-1, 1}),
               revenue : Opt({-1, 1})] :
        Present(data) \in FieldPairs}

\* Create requests: two valid ones, on the boundaries of the date and of the
\* score, and one per check that fails it alone.
CreateInputs ==
    {BaseMovie, [BaseMovie EXCEPT !.date = Today + OneYear, !.score = MaxScore],
     [BaseMovie EXCEPT !.name = NameLong],
     [BaseMovie EXCEPT !.date = Today + OneYear + 1],
     [BaseMovie EXCEPT !.score = MinScore - 1],
     [BaseMovie EXCEPT !.score = MaxScore + 1],
     [BaseMovie EXCEPT !.budget = -1],
     [BaseMovie EXCEPT !.revenue = -1]}

Pages == 0..MaxPage
PerPages == {MinPerPage - 1, MinPerPage, MinPerPage + 1, MaxPerPage, MaxPerPage + 1}

\* The movies of the list specification: valid, and distinct by their date.
ListCreateInputs ==
    {[BaseMovie EXCEPT !.date = Today - k] : k \in 0..(MaxListMovies - 1)}

-----------------------------------------------------------------------------

Init ==
    /\ table = <<>>
    /\ nextId = 1
    /\ req = [r \in Reqs |-> Idle]
    /\ last = Response("none", NoBody, 0, [msg |-> ""], NoBody, NoGhost)
    /\ nops = 0

\* The inputs a request may carry while fewer than max requests were received.
Within(max, S) == IF nops < max THEN S ELSE {}

\* The four handlers of one movie, under concurrent requests.
Next ==
    \E r \in Reqs :
        \/ \E movie_id \in Within(MaxOps, 1..nextId) : GetMovieById(r, movie_id)
        \/ \E movie \in Within(MaxOps, CreateInputs) : CreateMovie(r, movie)
        \/ CreateCommit(r)
        \/ \E movie_id \in Within(MaxOps, 1..nextId) : DeleteMovie(r, movie_id)
        \/ DeleteCommit(r)
        \/ \E movie_id \in Within(MaxOps, 1..nextId), data \in UpdateInputs :
              UpdateMovie(r, movie_id, data)
        \/ UpdateCommit(r)

Spec == Init /\ [][Next]_vars

\* All five handlers, with the larger sets of create and update requests.
NextFull ==
    \E r \in Reqs :
        \/ \E movie_id \in Within(MaxFullOps, 1..nextId) : GetMovieById(r, movie_id)
        \/ \E page \in Within(MaxFullOps, Pages), per_page \in PerPages :
              ListMovies(r, page, per_page)
        \/ ListCount(r)
        \/ \E movie \in Within(MaxFullOps, FullCreateInputs) : CreateMovie(r, movie)
        \/ CreateCommit(r)
        \/ \E movie_id \in Within(MaxFullOps, 1..nextId) : DeleteMovie(r, movie_id)
        \/ DeleteCommit(r)
        \/ \E movie_id \in Within(MaxFullOps, 1..nextId), data \in FullUpdateInputs :
              UpdateMovie(r, movie_id, data)
        \/ UpdateCommit(r)

SpecFull == Init /\ [][NextFull]_vars

\* The list under concurrent creates and deletes, with more movies.
NextList ==
    \E r \in Reqs :
        \/ \E page \in Within(MaxListOps, Pages), per_page \in PerPages :
              ListMovies(r, page, per_page)
        \/ ListCount(r)
        \/ \E movie \in Within(MaxListOps, ListCreateInputs) : CreateMovie(r, movie)
        \/ CreateCommit(r)
        \/ \E movie_id \in Within(MaxListOps, 1..nextId) : DeleteMovie(r, movie_id)
        \/ DeleteCommit(r)

SpecList == Init /\ [][NextList]_vars

-----------------------------------------------------------------------------
(* Properties *)

Rows == 1..Len(table)

\* A step in which a request got its response: a handler that answered at once
\* leaves req as it was, a commit or a count writes last.
Completed == last' # last \/ (nops' # nops /\ req' = req)

\* C1: no two stored movies have the same (name, date) pair, in every
\* reachable state.
C1_UniqueNameDate ==
    \A i, j \in Rows :
        i # j => ~(table[i].name = table[j].name /\ table[i].date = table[j].date)

\* C2: every stored movie has a name of at most 255 characters, in every
\* reachable state.
C2_NameAtMost255 ==
    \A i \in Rows : PyLen(table[i].name) <= 255

C4_FailureWritesNothing ==
    [][(/\ Completed
        /\ last'.op \in {"create", "update", "delete"}
        /\ last'.status \in {400, 404, 409})
       => table' = table]_vars

\* An update with a valid score and an invalid budget was answered BadRequest,
\* and the movie's score is not the one it supplied.
C4_Witness ==
    /\ last.op = "update"
    /\ last.status = 400
    /\ last.args.data.score = Some(MaxScore)
    /\ last.args.data.budget = Some(-1)
    /\ \E i \in Rows : table[i].id = last.args.movie_id /\ table[i].score # MaxScore

Ids(t) == {t[i].id : i \in 1..Len(t)}

\* C8: get_by_id answers with the stored movie of the requested id when there
\* is one and with NotFound otherwise; a delete of an absent id is answered
\* NotFound; and an id that was created and is no longer stored (it was
\* deleted) or that was never created is not stored later.
C8_GetById ==
    [][/\ (Completed /\ last'.op = "get")
          => LET id == last'.args.movie_id
             IN  IF id \in Ids(table)
                 THEN /\ last'.status = 200
                      /\ last'.body.id = id
                      /\ \E i \in Rows : table[i].id = id /\ last'.body = table[i]
                 ELSE last'.status = 404
       /\ (nops' # nops /\ req' = req /\ last'.op = "delete")
          => (last'.status = 404 /\ last'.args.movie_id \notin Ids(table))
       /\ (\E r \in Reqs : req[r].op = "idle" /\ req'[r].op = "delete")
          => \E r \in Reqs : /\ req'[r].op = "delete"
                             /\ req'[r].args.movie_id \in Ids(table)
       /\ \A id \in 1..(nextId - 1) : id \notin Ids(table) => id \notin Ids(table')
       /\ \A i \in Rows : table[i].id < nextId]_vars

\* A get of an id that was created and then deleted was answered NotFound.
C8_Witness ==
    /\ last.op = "get"
    /\ last.status = 404
    /\ last.args.movie_id < nextId

\* The outcome the claim C9 gives create(movie) against the table t.
C9_Expected(movie, t) ==
    IF PyLen(movie.name) > 255
    THEN [status |-> 400, msg |-> "Name must not exceed 255 characters."]
    ELSE IF movie.date > Today + 365
    THEN [status |-> 400,
          msg |-> "Movie date must not be more than one year in the future."]
    ELSE IF movie.score < 0 \/ movie.score > 100
    THEN [status |-> 400, msg |-> "Score must be between 0 and 100."]
    ELSE IF movie.budget < 0
    THEN [status |-> 400, msg |-> "Budget must be a non-negative number."]
    ELSE IF movie.revenue < 0
    THEN [status |-> 400, msg |-> "Revenue must be a non-negative number."]
    ELSE IF \E i \in 1..Len(t) : t[i].name = movie.name /\ t[i].date = movie.date
    THEN [status |-> 409,
          msg |-> "A movie with the name and release date already exists."]
    ELSE [status |-> 201, msg |-> "Created"]

\* C9: create decides by the five checks in their order, each failing with
\* BadRequest and the message of the first violated rule, then by the
\* uniqueness of (name, date), failing with Conflict when a movie with that
\* name and date is stored; otherwise it persists exactly one new movie with
\* the input's attributes and a fresh id, and returns it.
C9_CreateOrder ==
    [][/\ (nops' # nops /\ req' = req /\ last'.op = "create")
          => LET e == C9_Expected(last'.args, table)
             IN  /\ last'.status = e.status
                 /\ last'.detail.msg = e.msg
                 /\ e.status # 201
       /\ \A r \in Reqs :
            (req[r].op = "idle" /\ req'[r].op = "create")
            => C9_Expected(req'[r].args, table).status = 201
       /\ \A r \in Reqs :
            (req[r].op = "create" /\ req'[r].op = "idle")
            => /\ last'.status = 201
               /\ Len(table') = Len(table) + 1
               /\ SubSeq(table', 1, Len(table)) = table
               /\ last'.body = table'[Len(table')]
               /\ last'.body.id \notin Ids(table)
               /\ \A f \in CreateFields : last'.body[f] = req[r].args[f]]_vars

\* C9 but for the create that finds two stored movies with its name and date.
C9_CreateOrderButMultiple ==
    [][/\ (nops' # nops /\ req' = req /\ last'.op = "create")
          => LET e == C9_Expected(last'.args, table)
             IN  \/ /\ last'.status = e.status
                    /\ last'.detail.msg = e.msg
                    /\ e.status # 201
                 \/ /\ last'.status = 500
                    /\ e.status = 409
                    /\ Len(WhereNameDate(table, last'.args.name, last'.args.date)) > 1
       /\ \A r \in Reqs :
            (req[r].op = "idle" /\ req'[r].op = "create")
            => C9_Expected(req'[r].args, table).status = 201
       /\ \A r \in Reqs :
            (req[r].op = "create" /\ req'[r].op = "idle")
            => /\ last'.status = 201
               /\ Len(table') = Len(table) + 1
               /\ SubSeq(table', 1, Len(table)) = table
               /\ last'.body = table'[Len(table')]
               /\ last'.body.id \notin Ids(table)
               /\ \A f \in CreateFields : last'.body[f] = req[r].args[f]]_vars

\* ceil(a / b), for a >= 0 and b > 0.
Ceil(a, b) == CHOOSE k \in 0..a : k * b >= a /\ (k = 0 \/ (k - 1) * b < a)

ListOk == last.op = "list" /\ last.status = 200

\* C6: in every successful list response total_pages is ceil(total_items /
\* per_page), prev_page is null iff page = 1 and next_page is null iff page =
\* total_pages.
C6_Pagination ==
    ListOk =>
        /\ last.args.page >= 1
        /\ last.args.per_page \in 1..20
        /\ last.body.total_pages = Ceil(last.body.total_items, last.args.per_page)
        /\ (last.body.prev_page = None) <=> (last.args.page = 1)
        /\ (last.body.next_page = None) <=> (last.args.page = last.body.total_pages)

\* C6 as amended: in every successful list response total_pages is
\* ceil(total_items / per_page), prev_page is null iff page = 1 and next_page
\* is null iff page >= total_pages; page <= total_pages, so that next_page is
\* null iff page = total_pages, when no create or delete was committed between
\* the page query and the count.
C6_PaginationAmended ==
    ListOk =>
        /\ last.args.page >= 1
        /\ last.args.per_page \in 1..20
        /\ last.body.total_pages = Ceil(last.body.total_items, last.args.per_page)
        /\ (last.body.prev_page = None) <=> (last.args.page = 1)
        /\ (last.body.next_page = None) <=> (last.args.page >= last.body.total_pages)
        /\ ~last.ghost.dirty => last.args.page <= last.body.total_pages

\* The last of two pages: no next page, a previous page.
C6_Witness ==
    /\ ListOk
    /\ last.args.page = 2
    /\ last.body.total_pages = 2
    /\ last.body.next_page = None
    /\ last.body.prev_page # None

\* C7: a list request whose offset (page-1)*per_page is at least the number of
\* stored movies is answered NotFound, and any other one gets k movies with
\* 1 <= k <= per_page: never an empty list.
C7_NoEmptyPage ==
    /\ (last.op = "list" /\ last.status # 422)
       => IF (last.args.page - 1) * last.args.per_page >= last.ghost.n_at_fetch
          THEN last.status = 404
          ELSE /\ last.status = 200
               /\ Len(last.body.movies) >= 1
               /\ Len(last.body.movies) <= last.args.per_page
    /\ \A r \in Reqs :
         req[r].op = "list"
         => /\ (req[r].args.page - 1) * req[r].args.per_page < req[r].n_at_fetch
            /\ Len(req[r].movies) >= 1
            /\ Len(req[r].movies) <= req[r].args.per_page

\* A page beyond the last one of a table that holds movies was answered
\* NotFound.
C7_Witness ==
    /\ last.op = "list"
    /\ last.status = 404
    /\ last.ghost.n_at_fetch > 0

\* C10: total_items is the number of movies the table held when the page was
\* read, unless a create or a delete was committed between the page query and
\* the count.
C10_CountMatchesUnlessInterleaved ==
    (ListOk /\ ~last.ghost.dirty) => last.body.total_items = last.ghost.n_at_fetch

\* A delete committed between the two reads: movies in the response, and
\* total_items = 0, total_pages = 0 < page.
C10_Witness ==
    /\ ListOk
    /\ Len(last.body.movies) >= 1
    /\ last.body.total_items = 0
    /\ last.args.page > last.body.total_pages

====
